---------------------------- MODULE Spec2Model ----------------------------
(***************************************************************************)
(* A model of symfc-alm (src/src/symfc_alm/symfc_alm.py): the dataset      *)
(* loader read_dataset, the value objects DispForceDataset and             *)
(* CellDataset, and the driver SymfcAlm (get_matrix_elements, run and the  *)
(* reindexing of the solver's sparse force constants).                     *)
(*                                                                         *)
(* Arrays are modelled by their shape (a sequence of dimensions) and,      *)
(* where the contents matter, by their values: in C order for the tables   *)
(* of the loader, by the elements assigned so far for the zero-filled      *)
(* force-constant tensors.  Index tuples are 0-based, as in numpy.  The    *)
(* ALM solver is an external collaborator: each of its methods either      *)
(* returns or raises, and what get_fc returns is a nondeterministic        *)
(* choice.                                                                 *)
(***************************************************************************)
EXTENDS Integers, Sequences, FiniteSets, TLC

VARIABLES
    cellArgs,    \* shapes of the arguments of a CellDataset(...) call
    cellResult,  \* what that call produced: nothing yet, an object, an error
    dsInput,     \* the argument(s) of a read_dataset or DispForceDataset call
    dsResult,    \* what that call produced: nothing yet, a dataset, an error
    rxIn,        \* natom, order and the solver's entries handed to the reindexing
    rxOut,       \* the dense tensor it produced, or the error
    selfCell,    \* SymfcAlm._cell
    call,        \* the call in progress: run or get_matrix_elements, its arguments
    ncalls,      \* calls made so far on this SymfcAlm
    pc,          \* the statement the call is at
    opened,      \* every solver handle entered so far, in order
    released,    \* the handles whose __exit__ has run
    alm,         \* the handle bound by the with statement being executed, or 0
    exc,         \* the exception in flight inside a with block
    log,         \* what this call did to the solver and to numpy, in order
    Ab,          \* the A, b returned by get_matrix_elements
    psi,         \* pinv(A) @ b
    loopOrder,   \* the loop variable of _extract_fc_from_alm
    fcs,         \* the list of tensors it builds
    reply,       \* what get_fc returned in the current pass of the loop
    noEntries,   \* the orders of this call for which get_fc returned no pair
    skipped,     \* the orders of this call in which some pair was skipped
    result       \* what the last call returned or raised

cellVars == <<cellArgs, cellResult>>

dsVars == <<dsInput, dsResult>>

rxVars == <<rxIn, rxOut>>

runVars == <<selfCell, call, ncalls, pc, opened, released, alm, exc, log, Ab, psi,
             loopOrder, fcs, reply, noEntries, skipped, result>>

vars == <<cellVars, dsVars, rxVars, runVars>>

(***************************************************************************)
(* Bounds of the model.                                                    *)
(***************************************************************************)
MaxNdim == 2
MaxSamples == 2
MaxSeed == 2
MaxAtoms == 2
MaxOrder == 2
MaxEntries == 2
MaxCalls == 2

(***************************************************************************)
(* Constants of the program.                                               *)
(***************************************************************************)
\* The number of Cartesian directions: the 3 of "shape[1] != 3", "// 3", "% 3".
CartDim == 3
\* The 64 and the 6 of reshape(-1, 64, 6).
AtomsPerSample == 64
NumColumns == 6

(***************************************************************************)
(* Values shared by all parts.                                             *)
(***************************************************************************)
None == [kind |-> "none"]

Error(type, msg) == [kind |-> "error", type |-> type, msg |-> msg]

\* All array shapes of at most n dimensions, each dimension in dims.
RECURSIVE ShapesUpTo(_, _)
ShapesUpTo(n, dims) ==
    IF n = 0 THEN {<<>>}
    ELSE LET s == ShapesUpTo(n - 1, dims)
         IN  s \cup {Append(x, d) : x \in {y \in s : Len(y) = n - 1}, d \in dims}

(***************************************************************************)
(* CellDataset.__init__                                                    *)
(***************************************************************************)
\* len(a) of an ndarray: its first dimension; a 0-d array has no len().
HasLen(shape) == Len(shape) >= 1

NpLen(shape) == shape[1]

\* The three conditions the constructor checks, as conditions on the shapes.
LenOk(args) ==
    /\ HasLen(args.numbers)
    /\ HasLen(args.points)
    /\ NpLen(args.numbers) = NpLen(args.points)

PointsOk(args) == Len(args.points) >= 2 /\ args.points[2] = CartDim

LatticeOk(args) == args.lattice = <<CartDim, CartDim>>

\* The buggy variant in which the lattice check is a copy of the points one.
CellDataset_init_lattice_copied(args) ==
    IF ~HasLen(args.numbers) \/ ~HasLen(args.points)
    THEN Error("TypeError", "len() of unsized object")
    ELSE IF NpLen(args.numbers) # NpLen(args.points)
    THEN Error("RuntimeError", "Shapes of numbers and points are inconsistent.")
    ELSE IF Len(args.points) < 2
    THEN Error("IndexError", "tuple index out of range")
    ELSE IF args.points[2] # CartDim
    THEN Error("TypeError", "Shape of second dimension of points has to be 3.")
    ELSE IF args.lattice # <<CartDim, CartDim>>
    THEN Error("TypeError", "Shape of second dimension of points has to be 3.")
    ELSE [kind |-> "cell", lattice |-> args.lattice, points |-> args.points,
          numbers |-> args.numbers]

\* The constructor: the object, or the error raised by the first failing line.
CellDataset_init(args) ==
    IF ~HasLen(args.numbers) \/ ~HasLen(args.points)
    THEN Error("TypeError", "len() of unsized object")
    ELSE IF NpLen(args.numbers) # NpLen(args.points)
    THEN Error("RuntimeError", "Shapes of numbers and points are inconsistent.")
    ELSE IF Len(args.points) < 2
    THEN Error("IndexError", "tuple index out of range")
    ELSE IF args.points[2] # CartDim
    THEN Error("TypeError", "Shape of second dimension of points has to be 3.")
    ELSE IF args.lattice # <<CartDim, CartDim>>
    THEN Error("TypeError", "Shape of lattice has to be (3, 3).")
    ELSE [kind |-> "cell", lattice |-> args.lattice, points |-> args.points,
          numbers |-> args.numbers]

\* CellDataset.__len__
CellDataset_len(cell) == NpLen(cell.numbers)

\* The conditions among the three that the arguments violate.
Violations(args) ==
    {v \in {"len", "points", "lattice"} :
        \/ v = "len" /\ ~LenOk(args)
        \/ v = "points" /\ ~PointsOk(args)
        \/ v = "lattice" /\ ~LatticeOk(args)}

\* Argument shapes: up to MaxNdim dimensions, each 3 or next to 3.
CellShapes == ShapesUpTo(MaxNdim, (CartDim - 1)..(CartDim + 1))

CellArgSets == [lattice : CellShapes, points : CellShapes, numbers : CellShapes]

\* The errors the constructor raises when v is the only violated condition.
ErrorsRaisedFor ==
    [v \in {"len", "points", "lattice"} |->
        {CellDataset_init(a) : a \in {x \in CellArgSets : Violations(x) = {v}}}]

\* The part of the state a specification does not exercise stays as it starts.
CellIdle == cellArgs = None /\ cellResult = None

DataIdle == dsInput = None /\ dsResult = None

ReindexIdle == rxIn = None /\ rxOut = None

RunIdle ==
    /\ selfCell = None /\ call = None /\ ncalls = 0 /\ pc = "off"
    /\ opened = <<>> /\ released = {} /\ alm = 0 /\ exc = None
    /\ log = <<>> /\ Ab = None /\ psi = None /\ loopOrder = 0 /\ fcs = <<>>
    /\ reply = <<>> /\ noEntries = {} /\ skipped = {} /\ result = None

InitCell ==
    /\ cellArgs \in CellArgSets
    /\ cellResult = None
    /\ DataIdle
    /\ ReindexIdle
    /\ RunIdle

\* One call CellDataset(lattice, points, numbers).
ConstructCell ==
    /\ cellResult = None
    /\ cellResult' = CellDataset_init(cellArgs)
    /\ UNCHANGED <<cellArgs, dsVars, rxVars, runVars>>

NextCell == ConstructCell

SpecCell == InitCell /\ [][NextCell]_vars

(***************************************************************************)
(* numpy arrays with contents: the shape and the values in C (row-major)   *)
(* order, as the array lies in memory.  Index tuples are 0-based.          *)
(***************************************************************************)
RECURSIVE Product(_)
Product(shape) == IF shape = <<>> THEN 1 ELSE Head(shape) * Product(Tail(shape))

\* The position of element idx in the C-order sequence, counted from 1.
RECURSIVE Offset(_, _)
Offset(shape, idx) ==
    IF shape = <<>> THEN 1
    ELSE Head(idx) * Product(Tail(shape)) + Offset(Tail(shape), Tail(idx))

At(arr, idx) == arr.flat[Offset(arr.shape, idx)]

\* The index tuple of the element at position k (from 1) of a C-order array.
RECURSIVE Unravel(_, _)
Unravel(shape, k) ==
    IF shape = <<>> THEN <<>>
    ELSE LET inner == Product(Tail(shape))
         IN  <<(k - 1) \div inner>> \o Unravel(Tail(shape), ((k - 1) % inner) + 1)

\* np.array(a, dtype="double", order="C"): a C-ordered copy of the same shape;
\* the small integers of the model are exact as doubles.
NpArrayDouble(a) ==
    [shape |-> a.shape, flat |-> [k \in 1..Len(a.flat) |-> a.flat[k]]]

(***************************************************************************)
(* DispForceDataset.__init__: converts both arrays and checks nothing.     *)
(***************************************************************************)
DispForceDataset_init(displacements, forces) ==
    [kind |-> "dataset",
     displacements |-> NpArrayDouble(displacements),
     forces |-> NpArrayDouble(forces)]

(***************************************************************************)
(* read_dataset                                                            *)
(***************************************************************************)
\* A text file's bytes: its lines, each a row of ncols numbers.
Text(rows, ncols) == [kind |-> "text", rows |-> rows, ncols |-> ncols]

\* lzma compression of a text: anything but the text itself.
XzCompress(text) == [kind |-> "xz", xz |-> text]

\* What reading the object opened at line 30 yields: lzma.open decompresses
\* or fails, io.open hands out the bytes as they are.
LzmaOpenRead(bytes) ==
    IF bytes.kind = "xz" THEN bytes.xz
    ELSE Error("LZMAError", "Input format not supported by decoder")

IoOpenRead(bytes) == bytes

\* np.loadtxt: a 2-dimensional array, one row per line; compressed bytes are
\* not numbers.
NpLoadtxt(bytes) ==
    IF bytes.kind = "error" THEN bytes
    ELSE IF bytes.kind = "xz"
    THEN Error("ValueError", "could not convert string to float")
    ELSE [kind |-> "array",
          shape |-> <<Len(bytes.rows), bytes.ncols>>,
          flat |-> [k \in 1..(Len(bytes.rows) * bytes.ncols) |->
                      bytes.rows[((k - 1) \div bytes.ncols) + 1]
                                [((k - 1) % bytes.ncols) + 1]]]

\* a.reshape(-1, 64, 6): the same values in the same order under a new shape.
Reshape(a) ==
    IF a.kind = "error" THEN a
    ELSE IF Len(a.flat) % (AtomsPerSample * NumColumns) # 0
    THEN Error("ValueError", "cannot reshape array")
    ELSE [kind |-> "array",
          shape |-> <<Len(a.flat) \div (AtomsPerSample * NumColumns),
                      AtomsPerSample, NumColumns>>,
          flat |-> a.flat]

\* data[:, :, lo:hi] of a 3-dimensional array.
SliceLast(data, lo, hi) ==
    LET shape == <<data.shape[1], data.shape[2], hi - lo>>
    IN  [shape |-> shape,
         flat |-> [k \in 1..Product(shape) |->
                     LET i == Unravel(shape, k)
                     IN  At(data, <<i[1], i[2], i[3] + lo>>)]]

\* The variant of line 33 that drops the last column.
ForcesOf_short(data) == SliceLast(data, 3, NumColumns - 1)

\* The variant of line 32 that takes the force columns.
DisplacementsOf_forces(data) == SliceLast(data, 3, NumColumns)

\* Line 32 and line 33.
DisplacementsOf(data) == SliceLast(data, 0, 3)

ForcesOf(data) == SliceLast(data, 3, NumColumns)

\* Lines 22-31: the table read from the stream or the path, reshaped.
Loaded(fp) ==
    IF fp.kind = "stream" THEN Reshape(NpLoadtxt(fp.bytes))
    ELSE IF fp.suffix = ".xz"
    THEN Reshape(NpLoadtxt(LzmaOpenRead(fp.bytes)))
    ELSE Reshape(NpLoadtxt(IoOpenRead(fp.bytes)))

read_dataset(fp) ==
    LET data == Loaded(fp)
    IN  IF data.kind = "error" THEN data
        ELSE DispForceDataset_init(DisplacementsOf(data), ForcesOf(data))

(***************************************************************************)
(* The inputs of the loader: tables of 6 columns whose number of rows is a *)
(* multiple of 64 or one less, every cell a different number, as a stream, *)
(* as a plain file and as an .xz file (and with the wrong suffix).         *)
(***************************************************************************)
TableCell(seed, r, c) == seed + NumColumns * r + c

Table(nrows, seed) ==
    [r \in 1..nrows |-> [c \in 1..NumColumns |-> TableCell(seed, r - 1, c - 1)]]

TableRows == UNION {{m * AtomsPerSample, m * AtomsPerSample - 1} : m \in 1..MaxSamples}

Tables == {Table(n, seed) : n \in TableRows, seed \in 0..MaxSeed}

FilePointers ==
    UNION {{[kind |-> "stream", suffix |-> "", bytes |-> Text(t, NumColumns)],
            [kind |-> "path", suffix |-> ".txt", bytes |-> Text(t, NumColumns)],
            [kind |-> "path", suffix |-> ".xz",
             bytes |-> XzCompress(Text(t, NumColumns))],
            [kind |-> "path", suffix |-> ".xz", bytes |-> Text(t, NumColumns)],
            [kind |-> "path", suffix |-> ".txt",
             bytes |-> XzCompress(Text(t, NumColumns))]} : t \in Tables}

\* The table a file pointer holds, and whether its suffix tells the truth.
TableOf(fp) == IF fp.bytes.kind = "xz" THEN fp.bytes.xz.rows ELSE fp.bytes.rows

Readable(fp) == (fp.bytes.kind = "xz") <=> (fp.suffix = ".xz")

\* Arrays handed to the constructor directly: (m, 64, 3) of zeros.
ZeroArray(shape) == [shape |-> shape, flat |-> [k \in 1..Product(shape) |-> 0]]

DirectArrays == {ZeroArray(<<m, AtomsPerSample, CartDim>>) : m \in 1..MaxSamples}

InitData ==
    /\ dsInput \in [op : {"read_dataset"}, fp : FilePointers]
                   \cup [op : {"DispForceDataset"},
                         displacements : DirectArrays, forces : DirectArrays]
    /\ dsResult = None
    /\ CellIdle
    /\ ReindexIdle
    /\ RunIdle

\* One call read_dataset(fp).
ReadDataset ==
    /\ dsResult = None
    /\ dsInput.op = "read_dataset"
    /\ dsResult' = read_dataset(dsInput.fp)
    /\ UNCHANGED <<dsInput, cellVars, rxVars, runVars>>

\* One call DispForceDataset(displacements, forces).
ConstructDataset ==
    /\ dsResult = None
    /\ dsInput.op = "DispForceDataset"
    /\ dsResult' = DispForceDataset_init(dsInput.displacements, dsInput.forces)
    /\ UNCHANGED <<dsInput, cellVars, rxVars, runVars>>

NextData == ReadDataset \/ ConstructDataset

SpecData == InitData /\ [][NextData]_vars

(***************************************************************************)
(* The dense force-constant tensors of _extract_fc_from_alm.  np.zeros     *)
(* gives a tensor that is 0 everywhere; it is kept as its shape and the    *)
(* elements assigned so far, every other element reading 0.                *)
(***************************************************************************)
Repeat(x, n) == [j \in 1..n |-> x]

\* Line 161: (len(atom_list),) + (natom,) * order + (3,) * (order + 1).
FcShape(natom, order) ==
    <<natom>> \o Repeat(natom, order) \o Repeat(CartDim, order + 1)

\* The variant of np.zeros that leaves the memory as it finds it (np.empty).
NpZeros_uninitialised(shape) ==
    [kind |-> "tensor", shape |-> shape,
     data |-> [p \in {[k \in 1..Len(shape) |-> 0]} |-> 1]]

NpZeros(shape) == [kind |-> "tensor", shape |-> shape, data |-> [p \in {} |-> 0]]

FcAt(fc, pos) == IF pos \in DOMAIN fc.data THEN fc.data[pos] ELSE 0

NonZero(fc) == {p \in DOMAIN fc.data : fc.data[p] # 0}

\* fc[selection] = value with a full tuple of integers: numpy counts a
\* negative index from the end and raises IndexError outside the axis.
InBounds(shape, selection) ==
    /\ Len(selection) = Len(shape)
    /\ \A k \in 1..Len(shape) : -shape[k] <= selection[k] /\ selection[k] < shape[k]

\* The variant of the assignment that wraps every index into its axis
\* instead of refusing it.
SetItem_wrapping(fc, selection, value) ==
    LET pos == [k \in 1..Len(fc.shape) |-> selection[k] % fc.shape[k]]
    IN  [fc EXCEPT !.data = [p \in DOMAIN fc.data \cup {pos} |->
                                IF p = pos THEN value ELSE fc.data[p]]]

SetItem(fc, selection, value) ==
    IF ~InBounds(fc.shape, selection)
    THEN Error("IndexError", "index is out of bounds for axis")
    ELSE LET pos == [k \in 1..Len(selection) |->
                       IF selection[k] < 0 THEN selection[k] + fc.shape[k]
                       ELSE selection[k]]
         IN  [fc EXCEPT !.data = [p \in DOMAIN fc.data \cup {pos} |->
                                     IF p = pos THEN value ELSE fc.data[p]]]

\* Line 160: np.arange(natom).
AtomList(natom) == [k \in 1..natom |-> k - 1]

\* Line 165: np.where(atom_list == v0)[0], the 0-based places holding v0.
RECURSIVE Where(_, _, _)
Where(atom_list, v0, k) ==
    IF k > Len(atom_list) THEN <<>>
    ELSE (IF atom_list[k] = v0 THEN <<k - 1>> ELSE <<>>)
         \o Where(atom_list, v0, k + 1)

\* Lines 164 and 167: indices // 3 and indices % 3, element by element.
FloorDiv3(indices) == [j \in 1..Len(indices) |-> indices[j] \div CartDim]

Mod3(indices) == [j \in 1..Len(indices) |-> indices[j] % CartDim]

\* The variant of line 168 that puts the components before the atoms.
Selection_components_first(idx, v, c) == <<idx[1]>> \o c \o Tail(v)

\* Line 168: (idx[0],) + tuple(v[1:]) + tuple(c).
Selection(idx, v, c) == <<idx[1]>> \o Tail(v) \o c

\* The variant of line 166 that writes without looking the atom up.
WriteEntry_no_lookup(fc, natom, entry) ==
    SetItem(fc, FloorDiv3(entry.indices) \o Mod3(entry.indices), entry.fc_elem)

\* Lines 164-169: one (fc_elem, indices) pair of the solver.
WriteEntry(fc, natom, entry) ==
    LET v == FloorDiv3(entry.indices)
        idx == Where(AtomList(natom), v[1], 1)
    IN  IF Len(idx) > 0
        THEN SetItem(fc, Selection(idx, v, Mod3(entry.indices)), entry.fc_elem)
        ELSE fc

\* Line 163: the loop over the pairs, left at the first exception.
RECURSIVE WriteEntries(_, _, _)
WriteEntries(fc, natom, entries) ==
    IF fc.kind = "error" \/ entries = <<>> THEN fc
    ELSE WriteEntries(WriteEntry(fc, natom, Head(entries)), natom, Tail(entries))

\* The variant of line 162 that forgets the leading axis.
ReindexOrder_no_leading_axis(natom, order, entries) ==
    WriteEntries(NpZeros(Repeat(natom, order) \o Repeat(CartDim, order + 1)),
                 natom, entries)

\* Lines 160-169: the tensor of one order.
ReindexOrder(natom, order, entries) ==
    WriteEntries(NpZeros(FcShape(natom, order)), natom, entries)

(***************************************************************************)
(* What the solver may return from get_fc(order, mode="all"): up to        *)
(* MaxEntries pairs.  The index tuples run from a leading flat index in    *)
(* 0..3*natom (the last one names an atom that does not exist) in steps of *)
(* -1, 0 or 1, so that the atoms and the components of a tuple differ; the *)
(* j-th pair carries the value j, so that every pair is recognisable.      *)
(***************************************************************************)
IndexTuple(lead, stride, order) == [j \in 1..(order + 1) |-> lead + (j - 1) * stride]

IndexTuples(leads, strides, order) ==
    {t \in {IndexTuple(l, d, order) : l \in leads, d \in strides} :
        \A j \in 1..(order + 1) : t[j] >= 0}

\* The pair the solver yields after those of entries.
NextEntry(entries, tuple) == [fc_elem |-> Len(entries) + 1, indices |-> tuple]

(***************************************************************************)
(* The reindexing of one order on its own: natom atoms, one order, one     *)
(* list of pairs from the solver.                                          *)
(***************************************************************************)
ReindexTuples(natom, order) ==
    IndexTuples(0..(CartDim * natom), {-1, 0, 1}, order)

InitReindex ==
    /\ rxIn \in [natom : 1..MaxAtoms, order : 1..MaxOrder, entries : {<<>>}]
    /\ rxOut = None
    /\ CellIdle
    /\ DataIdle
    /\ RunIdle

\* The solver has one more pair in its answer to get_fc(order, mode="all").
SolverYields ==
    /\ rxOut = None
    /\ Len(rxIn.entries) < MaxEntries
    /\ \E t \in ReindexTuples(rxIn.natom, rxIn.order) :
         rxIn' = [rxIn EXCEPT !.entries = Append(@, NextEntry(@, t))]
    /\ UNCHANGED <<rxOut, cellVars, dsVars, runVars>>

\* One pass of the body of the loop of line 159.
Reindex ==
    /\ rxOut = None
    /\ rxOut' = ReindexOrder(rxIn.natom, rxIn.order, rxIn.entries)
    /\ UNCHANGED <<rxIn, cellVars, dsVars, runVars>>

NextReindex == SolverYields \/ Reindex

SpecReindex == InitReindex /\ [][NextReindex]_vars

(***************************************************************************)
(* SymfcAlm: one object, holding one structure of natom atoms, on which    *)
(* run and get_matrix_elements are called one after the other.             *)
(***************************************************************************)
otherVars == <<cellVars, dsVars, rxVars>>

handleVars == <<opened, released, alm>>

extractVars == <<loopOrder, fcs, reply, noEntries, skipped>>

\* A structure of n atoms that passes the checks of CellDataset.
ValidCell(n) ==
    CellDataset_init([lattice |-> <<CartDim, CartDim>>,
                      points |-> <<n, CartDim>>,
                      numbers |-> <<n>>])

\* The nbody arguments tried: the default None, and "only the highest
\* order", the [0, 3] of the docstring when maxorder is 2.
NbodyChoices(maxorder) ==
    {None, [kind |-> "list",
            list |-> [i \in 1..maxorder |-> IF i = maxorder THEN i + 1 ELSE 0]]}

Event(op, h, args) == [op |-> op, h |-> h, args |-> args]

\* ALM(...) makes a new solver object each time the with statement runs.
NewHandle(handles) == Len(handles) + 1

\* The arguments of ALM(...): lines 145-147 and 118-120.
AlmArgs(c) == <<c.lattice, c.points, c.numbers>>

\* The arguments of alm.define: line 148 (with the maxorder and nbody that
\* line 115 hands to get_matrix_elements) and line 121.
GmeDefineArgs(c) == <<c.maxorder, c.nbody>>

\* The variant of line 121 that forgets nbody=nbody.
RunDefineArgs_default_nbody(c) == <<c.maxorder, None>>

RunDefineArgs(c) == <<c.maxorder, c.nbody>>

InitRun ==
    /\ selfCell \in {ValidCell(n) : n \in 1..MaxAtoms}
    /\ call = None /\ ncalls = 0 /\ pc = "idle"
    /\ opened = <<>> /\ released = {} /\ alm = 0 /\ exc = None
    /\ log = <<>> /\ Ab = None /\ psi = None /\ loopOrder = 0 /\ fcs = <<>>
    /\ reply = <<>> /\ noEntries = {} /\ skipped = {} /\ result = None
    /\ CellIdle
    /\ DataIdle
    /\ ReindexIdle

\* The caller calls run(maxorder, nbody) or get_matrix_elements(maxorder,
\* nbody); run starts with line 115, which is the latter's body.
Call ==
    /\ pc = "idle"
    /\ ncalls < MaxCalls
    /\ \E op \in {"run", "get_matrix_elements"}, maxorder \in 1..MaxOrder :
         \E nbody \in NbodyChoices(maxorder) :
            call' = [op |-> op, maxorder |-> maxorder, nbody |-> nbody]
    /\ ncalls' = ncalls + 1
    /\ pc' = "gme_with"
    /\ exc' = None /\ log' = <<>> /\ Ab' = None /\ psi' = None
    /\ loopOrder' = 0 /\ fcs' = <<>> /\ reply' = <<>>
    /\ noEntries' = {} /\ skipped' = {} /\ result' = None
    /\ UNCHANGED <<selfCell, handleVars, otherVars>>

\* "with ALM(...) as alm": the solver object is made and entered, or the
\* making raises and there is nothing to release.
Enter(from, to) ==
    /\ pc = from
    /\ \/ /\ opened' = Append(opened, NewHandle(opened))
          /\ alm' = NewHandle(opened)
          /\ log' = Append(log, Event("enter", NewHandle(opened), AlmArgs(selfCell)))
          /\ pc' = to
          /\ UNCHANGED <<released, result>>
       \/ /\ result' = Error("SolverError", "ALM")
          /\ pc' = "idle"
          /\ UNCHANGED <<handleVars, log>>
    /\ UNCHANGED <<selfCell, call, ncalls, exc, Ab, psi, extractVars, otherVars>>

\* A method of the entered solver returns, or raises into the with block.
Method(from, to, exit, op, args) ==
    /\ pc = from
    /\ log' = Append(log, Event(op, alm, args))
    /\ \/ pc' = to /\ UNCHANGED exc
       \/ pc' = exit /\ exc' = Error("SolverError", op)
    /\ UNCHANGED <<selfCell, call, ncalls, handleVars, Ab, psi, extractVars,
                   result, otherVars>>

\* The variant of the with statement that releases on the normal path only.
Exit_no_release_on_error(from, to) ==
    /\ pc = from
    /\ released' = IF exc = None THEN released \cup {alm} ELSE released
    /\ alm' = 0
    /\ log' = Append(log, Event("exit", alm, <<>>))
    /\ IF exc # None
       THEN pc' = "idle" /\ result' = exc /\ exc' = None
       ELSE pc' = to /\ UNCHANGED <<result, exc>>
    /\ UNCHANGED <<selfCell, call, ncalls, opened, Ab, psi, extractVars, otherVars>>

\* The end of the with block: __exit__ releases the solver on every path;
\* an exception in flight then leaves the call.
Exit(from, to) ==
    /\ pc = from
    /\ released' = released \cup {alm}
    /\ alm' = 0
    /\ log' = Append(log, Event("exit", alm, <<>>))
    /\ IF exc # None
       THEN pc' = "idle" /\ result' = exc /\ exc' = None
       ELSE pc' = to /\ UNCHANGED <<result, exc>>
    /\ UNCHANGED <<selfCell, call, ncalls, opened, Ab, psi, extractVars, otherVars>>

(***************************************************************************)
(* get_matrix_elements, lines 144-154.                                     *)
(***************************************************************************)
GmeEnter == Enter("gme_with", "gme_define")

GmeDefine ==
    Method("gme_define", "gme_set_constraint", "gme_exit", "define",
           GmeDefineArgs(call))

GmeSetConstraint ==
    Method("gme_set_constraint", "gme_displacements", "gme_exit",
           "set_constraint", <<>>)

GmeDisplacements ==
    Method("gme_displacements", "gme_forces", "gme_exit", "displacements",
           <<"self._dataset.displacements">>)

GmeForces ==
    Method("gme_forces", "gme_get_matrix_elements", "gme_exit", "forces",
           <<"self._dataset.forces">>)

GmeGetMatrixElements ==
    /\ pc = "gme_get_matrix_elements"
    /\ log' = Append(log, Event("get_matrix_elements", alm, <<>>))
    /\ \/ /\ Ab' = [A |-> <<"A", alm>>, b |-> <<"b", alm>>]
          /\ pc' = "gme_exit"
          /\ UNCHANGED exc
       \/ /\ exc' = Error("SolverError", "get_matrix_elements")
          /\ pc' = "gme_exit"
          /\ UNCHANGED Ab
    /\ UNCHANGED <<selfCell, call, ncalls, handleVars, psi, extractVars, result,
                   otherVars>>

GmeExit == Exit("gme_exit", "gme_return")

\* Line 154, and for run the rest of line 115.
GmeReturn ==
    /\ pc = "gme_return"
    /\ IF call.op = "get_matrix_elements"
       THEN pc' = "idle" /\ result' = [kind |-> "Ab", A |-> Ab.A, b |-> Ab.b]
       ELSE pc' = "run_pinv" /\ UNCHANGED result
    /\ UNCHANGED <<selfCell, call, ncalls, handleVars, exc, log, Ab, psi,
                   extractVars, otherVars>>

(***************************************************************************)
(* run, lines 115-125, and _extract_fc_from_alm, lines 156-173.            *)
(***************************************************************************)
\* Line 116: np.linalg.pinv(A) @ b, or the LinAlgError of numpy.
RunPinv ==
    /\ pc = "run_pinv"
    /\ log' = Append(log, Event("pinv", 0, <<Ab.A, Ab.b>>))
    /\ \/ /\ psi' = [pinv |-> Ab.A, times |-> Ab.b]
          /\ pc' = "run_with"
          /\ UNCHANGED result
       \/ /\ result' = Error("LinAlgError", "SVD did not converge")
          /\ pc' = "idle"
          /\ UNCHANGED psi
    /\ UNCHANGED <<selfCell, call, ncalls, handleVars, exc, Ab, extractVars,
                   otherVars>>

RunEnter == Enter("run_with", "run_define")

RunDefine ==
    Method("run_define", "run_set_constraint", "run_exit", "define",
           RunDefineArgs(call))

RunSetConstraint ==
    Method("run_set_constraint", "run_set_fc", "run_exit", "set_constraint", <<>>)

RunSetFc == Method("run_set_fc", "run_extract_begin", "run_exit", "set_fc", <<psi>>)

\* Lines 157-158.
ExtractBegin ==
    /\ pc = "run_extract_begin"
    /\ fcs' = <<>>
    /\ loopOrder' = 1
    /\ pc' = "run_extract"
    /\ UNCHANGED <<selfCell, call, ncalls, handleVars, exc, log, Ab, psi, reply,
                   noEntries, skipped, result, otherVars>>

\* What get_fc may return to run: up to MaxEntries pairs whose tuples are the
\* last flat index of the last atom repeated (written), that index and the
\* ones after it (refused by numpy), or the index one past the end repeated
\* (an atom that is not there).
RunTuples(natom, order) ==
    {IndexTuple(CartDim * natom - 1, 0, order),
     IndexTuple(CartDim * natom - 1, 1, order),
     IndexTuple(CartDim * natom, 0, order)}

RECURSIVE Replies(_, _)
Replies(tuples, n) ==
    IF n = 0 THEN {<<>>}
    ELSE LET s == Replies(tuples, n - 1)
         IN  s \cup {Append(r, NextEntry(r, t)) :
                       r \in {y \in s : Len(y) = n - 1}, t \in tuples}

\* The pairs whose first decoded atom is none of the atoms 0..natom-1.
LeadAtomAbsent(natom, entry) == (entry.indices[1] \div 3) \notin 0..(natom - 1)

\* Lines 159-171, one pass: get_fc(order, mode="all") raises, or returns
\* pairs that are written into a new tensor, which is appended unless a
\* write raised.
ExtractOrder ==
    /\ pc = "run_extract"
    /\ loopOrder <= call.maxorder
    /\ log' = Append(log, Event("get_fc", alm, <<loopOrder, "all">>))
    /\ \/ /\ exc' = Error("SolverError", "get_fc")
          /\ pc' = "run_exit"
          /\ UNCHANGED extractVars
       \/ \E r \in Replies(RunTuples(CellDataset_len(selfCell), loopOrder), MaxEntries) :
            LET natom == CellDataset_len(selfCell)
                fc == ReindexOrder(natom, loopOrder, r)
            IN  /\ reply' = r
                /\ IF fc.kind = "error"
                   THEN /\ exc' = fc
                        /\ pc' = "run_exit"
                        /\ UNCHANGED <<loopOrder, fcs, noEntries, skipped>>
                   ELSE /\ fcs' = Append(fcs, fc)
                        /\ loopOrder' = loopOrder + 1
                        /\ noEntries' = IF r = <<>> THEN noEntries \cup {loopOrder}
                                        ELSE noEntries
                        /\ skipped' =
                             IF \E j \in 1..Len(r) : LeadAtomAbsent(natom, r[j])
                             THEN skipped \cup {loopOrder}
                             ELSE skipped
                        /\ UNCHANGED <<pc, exc>>
    /\ UNCHANGED <<selfCell, call, ncalls, handleVars, Ab, psi, result, otherVars>>

\* The loop of line 159 is over; line 173 hands fcs to line 124 and the
\* other locals of _extract_fc_from_alm are gone.
ExtractReturn ==
    /\ pc = "run_extract"
    /\ loopOrder > call.maxorder
    /\ pc' = "run_exit"
    /\ reply' = <<>>
    /\ loopOrder' = 0
    /\ UNCHANGED <<selfCell, call, ncalls, handleVars, exc, log, Ab, psi,
                   fcs, noEntries, skipped, result, otherVars>>

RunExit == Exit("run_exit", "run_return")

\* Line 125.
RunReturn ==
    /\ pc = "run_return"
    /\ result' = [kind |-> "fcs", fcs |-> fcs]
    /\ pc' = "idle"
    /\ UNCHANGED <<selfCell, call, ncalls, handleVars, exc, log, Ab, psi,
                   extractVars, otherVars>>

Next ==
    \/ Call
    \/ GmeEnter \/ GmeDefine \/ GmeSetConstraint \/ GmeDisplacements
    \/ GmeForces \/ GmeGetMatrixElements \/ GmeExit \/ GmeReturn
    \/ RunPinv \/ RunEnter \/ RunDefine \/ RunSetConstraint \/ RunSetFc
    \/ ExtractBegin \/ ExtractOrder \/ ExtractReturn \/ RunExit \/ RunReturn

Spec == InitRun /\ [][Next]_vars

(***************************************************************************)
(* C1: a CellDataset(...) call succeeds exactly when len(numbers) equals   *)
(* len(points), points.shape[1] is 3 and lattice.shape is (3, 3); and the  *)
(* error raised when exactly one of the three is violated is never the     *)
(* error raised when exactly another one is violated.                      *)
(***************************************************************************)
C1_CellValidation ==
    cellResult # None =>
        /\ (cellResult.kind = "cell") <=> (Violations(cellArgs) = {})
        /\ cellResult.kind = "cell" =>
              /\ cellResult.lattice = cellArgs.lattice
              /\ cellResult.points = cellArgs.points
              /\ cellResult.numbers = cellArgs.numbers
        /\ \A v \in Violations(cellArgs) :
              Violations(cellArgs) = {v} =>
                  /\ cellResult.kind = "error"
                  /\ \A w \in {"len", "points", "lattice"} \ {v} :
                        cellResult \notin ErrorsRaisedFor[w]

\* A call that failed on the lattice alone, with the lattice's own error.
C1_Witness ==
    /\ cellResult # None
    /\ Violations(cellArgs) = {"lattice"}
    /\ cellResult.kind = "error"
    /\ ErrorsRaisedFor["len"] # {}
    /\ ErrorsRaisedFor["points"] # {}

(***************************************************************************)
(* C4: for a table of M*64 rows and 6 columns read from a stream, a plain  *)
(* path or an .xz path, read_dataset returns displacements and forces of   *)
(* shape (M, 64, 3) with displacements[s, a, j] = table[s*64 + a][j] and   *)
(* forces[s, a, j] = table[s*64 + a][3 + j]: the same for all three        *)
(* sources, since it depends on the table alone.                           *)
(***************************************************************************)
C4_ReadDatasetLayout ==
    (/\ dsResult # None
     /\ dsInput.op = "read_dataset"
     /\ Readable(dsInput.fp)
     /\ Len(TableOf(dsInput.fp)) % AtomsPerSample = 0)
    => LET table == TableOf(dsInput.fp)
           M == Len(table) \div AtomsPerSample
       IN  /\ dsResult.kind = "dataset"
           /\ dsResult.displacements.shape = <<M, AtomsPerSample, 3>>
           /\ dsResult.forces.shape = <<M, AtomsPerSample, 3>>
           /\ \A s \in 0..(M - 1), a \in 0..(AtomsPerSample - 1), j \in 0..2 :
                /\ At(dsResult.displacements, <<s, a, j>>)
                     = table[s * AtomsPerSample + a + 1][j + 1]
                /\ At(dsResult.forces, <<s, a, j>>)
                     = table[s * AtomsPerSample + a + 1][3 + j + 1]

\* A table of at least two samples read from an .xz path.
C4_Witness ==
    /\ dsResult # None
    /\ dsInput.op = "read_dataset"
    /\ dsInput.fp.kind = "path"
    /\ dsInput.fp.suffix = ".xz"
    /\ dsResult.kind = "dataset"
    /\ dsResult.forces.shape[1] >= 2

(***************************************************************************)
(* C5 as claimed: every dataset has displacements and forces of the same   *)
(* shape, and a constructor call with different shapes fails.              *)
(***************************************************************************)
C5_ShapesAlwaysEqual ==
    dsResult # None =>
        /\ dsResult.kind = "dataset" =>
              dsResult.displacements.shape = dsResult.forces.shape
        /\ (/\ dsInput.op = "DispForceDataset"
            /\ dsInput.displacements.shape # dsInput.forces.shape)
           => dsResult.kind = "error"

(***************************************************************************)
(* C5 amended: every dataset read_dataset returns has displacements and    *)
(* forces of the same shape; the constructor checks nothing, so a direct   *)
(* call never fails and each array of the dataset keeps the shape it was   *)
(* given.                                                                  *)
(***************************************************************************)
C5_LoaderShapesEqual ==
    dsResult # None =>
        /\ (dsInput.op = "read_dataset" /\ dsResult.kind = "dataset") =>
              dsResult.displacements.shape = dsResult.forces.shape
        /\ dsInput.op = "DispForceDataset" =>
              /\ dsResult.kind = "dataset"
              /\ dsResult.displacements.shape = dsInput.displacements.shape
              /\ dsResult.forces.shape = dsInput.forces.shape

\* A dataset built directly from arrays of different shapes.
C5_Witness ==
    /\ dsResult # None
    /\ dsInput.op = "DispForceDataset"
    /\ dsResult.kind = "dataset"
    /\ dsResult.displacements.shape # dsResult.forces.shape

(***************************************************************************)
(* What the claims about the reindexing speak of.                          *)
(***************************************************************************)
DecodedPosition(indices) ==
    [j \in 1..(2 * Len(indices)) |->
        IF j <= Len(indices) THEN indices[j] \div 3
        ELSE indices[j - Len(indices)] % 3]

AllInRange(natom, entries) ==
    \A j \in 1..Len(entries) : \A i \in 1..Len(entries[j].indices) :
        entries[j].indices[i] \in 0..(3 * natom - 1)

NoTupleTwice(entries) ==
    \A i, j \in 1..Len(entries) :
        entries[i].indices = entries[j].indices => i = j

(***************************************************************************)
(* C7: when every flat index of every pair lies in 0..3N-1 and no index    *)
(* tuple occurs twice, the tensor of order k holds each pair's value at    *)
(* (i0 div 3, ..., ik div 3, i0 mod 3, ..., ik mod 3) and zero at every    *)
(* position no pair names.                                                 *)
(***************************************************************************)
C7_ReindexPlacesEveryEntry ==
    (/\ rxOut # None
     /\ AllInRange(rxIn.natom, rxIn.entries)
     /\ NoTupleTwice(rxIn.entries))
    => /\ rxOut.kind = "tensor"
       /\ \A j \in 1..Len(rxIn.entries) :
            FcAt(rxOut, DecodedPosition(rxIn.entries[j].indices))
              = rxIn.entries[j].fc_elem
       /\ NonZero(rxOut) \subseteq
            {DecodedPosition(rxIn.entries[j].indices) : j \in 1..Len(rxIn.entries)}

\* Two pairs of order 2 on two atoms, the atoms and components of a tuple
\* not all the same, both written.
C7_Witness ==
    /\ rxOut # None
    /\ rxIn.natom = 2
    /\ rxIn.order = 2
    /\ Len(rxIn.entries) = 2
    /\ AllInRange(rxIn.natom, rxIn.entries)
    /\ NoTupleTwice(rxIn.entries)
    /\ rxIn.entries[1].indices = <<2, 3, 4>>
    /\ rxOut.kind = "tensor"
    /\ Cardinality(NonZero(rxOut)) = 2

(***************************************************************************)
(* Shorthands for the claims about run and get_matrix_elements.            *)
(***************************************************************************)
N == CellDataset_len(selfCell)

Returned == pc = "idle" /\ call # None /\ call.op = "run" /\ result.kind = "fcs"

Raised == pc = "idle" /\ call # None /\ result.kind = "error"

OpenHandles == {opened[i] : i \in 1..Len(opened)} \ released

\* Whether shape is (n,) + (n,)*k + (3,)*(k+1).
IsFcShape(shape, n, k) ==
    /\ Len(shape) = 2 * k + 2
    /\ \A i \in 1..(k + 1) : shape[i] = n
    /\ \A i \in (k + 2)..(2 * k + 2) : shape[i] = 3

(***************************************************************************)
(* C2 as claimed: a run(maxorder=2) that succeeds returns exactly two      *)
(* tensors, of shapes (N, 3, 3) and (N, N, 3, 3, 3).                       *)
(***************************************************************************)
C2_ShapesAsClaimed ==
    (Returned /\ call.maxorder = 2) =>
        /\ Len(result.fcs) = 2
        /\ result.fcs[1].shape = <<N, 3, 3>>
        /\ result.fcs[2].shape = <<N, N, 3, 3, 3>>

(***************************************************************************)
(* C2 amended: a run(maxorder=2) that succeeds returns exactly two         *)
(* tensors, of shapes (N, N, 3, 3) and (N, N, N, 3, 3, 3), in that order.  *)
(***************************************************************************)
C2_ShapesOfRun2 ==
    (Returned /\ call.maxorder = 2) =>
        /\ Len(result.fcs) = 2
        /\ result.fcs[1].shape = <<N, N, 3, 3>>
        /\ result.fcs[2].shape = <<N, N, N, 3, 3, 3>>

\* A run(maxorder=2) on two atoms that returned.
C2_Witness == Returned /\ call.maxorder = 2 /\ N = 2

(***************************************************************************)
(* C3: at most one solver handle is open at any moment, and it is the one  *)
(* of the with block being executed; when a call has returned or raised,   *)
(* whatever step failed, every handle opened so far is released; and no    *)
(* handle is entered twice, within a call or across calls.                 *)
(***************************************************************************)
C3_HandlesReleased ==
    /\ Cardinality(OpenHandles) <= 1
    /\ OpenHandles \subseteq {alm}
    /\ pc \in {"idle", "gme_with", "gme_return", "run_pinv", "run_with", "run_return"}
         => OpenHandles = {}
    /\ \A i, j \in 1..Len(opened) : opened[i] = opened[j] => i = j

\* A second call that raised inside the second with block of run, after a
\* first call, with everything released.
C3_Witness ==
    /\ Raised
    /\ ncalls = 2
    /\ Len(opened) >= 3
    /\ result.type = "SolverError"
    /\ result.msg = "set_fc"
    /\ OpenHandles = {}

(***************************************************************************)
(* C6: a run that succeeds returns exactly maxorder tensors, the k-th of   *)
(* shape (N,) + (N,)*k + (3,)*(k+1), for every maxorder and nbody; the     *)
(* tensor of an order for which the solver returned no pair is there and   *)
(* is zero everywhere.                                                     *)
(***************************************************************************)
C6_OneTensorPerOrder ==
    Returned =>
        /\ Len(result.fcs) = call.maxorder
        /\ \A k \in 1..call.maxorder :
             /\ result.fcs[k].kind = "tensor"
             /\ IsFcShape(result.fcs[k].shape, N, k)
             /\ k \in noEntries => NonZero(result.fcs[k]) = {}

\* run(maxorder=2, nbody=[0, 3]) returned; the solver had nothing for order
\* 1 and something for order 2.
C6_Witness ==
    /\ Returned
    /\ call.maxorder = 2
    /\ call.nbody # None
    /\ call.nbody.list = <<0, 3>>
    /\ noEntries = {1}
    /\ NonZero(result.fcs[2]) # {}

(***************************************************************************)
(* The pairs that are not skipped, and those numpy refuses.                *)
(***************************************************************************)
Kept(natom, entries) ==
    {j \in 1..Len(entries) : ~LeadAtomAbsent(natom, entries[j])}

TrailingAtomAbsent(natom, entry) ==
    \E i \in 2..Len(entry.indices) : (entry.indices[i] \div 3) \notin 0..(natom - 1)

(***************************************************************************)
(* C8: a pair whose first decoded atom is none of 0..N-1 is skipped        *)
(* silently.  It raises nothing: an IndexError comes only from a pair      *)
(* whose first atom is there.  It changes nothing: the tensor of the pass  *)
(* is the one the other pairs alone give.  And the other pairs of the same *)
(* order and the later orders are still done: the pass ends with its       *)
(* tensor appended, and a run that succeeds after skipping has all its     *)
(* maxorder tensors.                                                       *)
(***************************************************************************)
C8_AbsentLeadSkipped ==
    /\ (pc = "run_extract" /\ Len(fcs) >= 1) =>
         LET fc == fcs[Len(fcs)]
             kept == Kept(N, reply)
         IN  /\ fc.kind = "tensor"
             /\ \A j \in kept :
                  FcAt(fc, DecodedPosition(reply[j].indices))
                    = reply[CHOOSE m \in kept :
                              /\ reply[m].indices = reply[j].indices
                              /\ \A l \in kept :
                                   reply[l].indices = reply[j].indices => l <= m
                           ].fc_elem
             /\ NonZero(fc) \subseteq {DecodedPosition(reply[j].indices) : j \in kept}
    /\ (pc = "run_exit" /\ exc # None /\ exc.type = "IndexError") =>
         \E j \in Kept(N, reply) : TrailingAtomAbsent(N, reply[j])
    /\ Returned => Len(result.fcs) = call.maxorder

\* In the pass for order 2, after a pass for order 1 that skipped a pair,
\* the solver returned a pair to skip and then a pair to write, and the
\* second is in the tensor.
C8_Witness ==
    /\ pc = "run_extract"
    /\ Len(fcs) = 2
    /\ 1 \in skipped
    /\ Len(reply) = 2
    /\ LeadAtomAbsent(N, reply[1])
    /\ ~LeadAtomAbsent(N, reply[2])
    /\ FcAt(fcs[2], DecodedPosition(reply[2].indices)) = 2

(***************************************************************************)
(* The log of a call, read back.                                           *)
(***************************************************************************)
IsEnter(e) == e.op = "enter"

IsPinv(e) == e.op = "pinv"

Enters == SelectSeq(log, IsEnter)

\* What the handle h was asked to do, without the enter and the exit.
Driven(h) ==
    LET OnH(e) == e.h = h /\ e.op \notin {"enter", "exit"}
    IN  SelectSeq(log, OnH)

ExpectedSecond(h) ==
    <<Event("define", h, <<call.maxorder, call.nbody>>),
      Event("set_constraint", h, <<>>),
      Event("set_fc", h, <<[pinv |-> <<"A", Enters[1].h>>,
                           times |-> <<"b", Enters[1].h>>]>>)>>
    \o [k \in 1..call.maxorder |-> Event("get_fc", h, <<k, "all">>)]

IsPrefix(s, t) == Len(s) <= Len(t) /\ \A i \in 1..Len(s) : s[i] = t[i]

ReleasedBefore(h, i) == \E j \in 1..(i - 1) : log[j] = Event("exit", h, <<>>)

(***************************************************************************)
(* C9: in a run the first handle is released before psi is computed and    *)
(* before the second handle is entered; the second handle gets the same    *)
(* structure, maxorder and nbody as the first and is driven in the order   *)
(* define, set_constraint, set_fc(psi), get_fc(1, "all"), ...,             *)
(* get_fc(maxorder, "all"); and when getting A and b or computing psi      *)
(* fails, no second handle is entered and no tensors are returned.         *)
(***************************************************************************)
C9_SecondHandleAfterFirst ==
    (call # None /\ call.op = "run") =>
        /\ Len(Enters) <= 2
        /\ \A i \in 1..Len(log) :
             (Len(Enters) >= 1 /\ (IsPinv(log[i]) \/ (IsEnter(log[i]) /\ log[i] # Enters[1])))
                => ReleasedBefore(Enters[1].h, i)
        /\ Len(Enters) = 2 =>
             /\ Enters[2].h # Enters[1].h
             /\ Enters[2].args = Enters[1].args
             /\ Enters[2].args = <<selfCell.lattice, selfCell.points, selfCell.numbers>>
             /\ IsPrefix(Driven(Enters[2].h), ExpectedSecond(Enters[2].h))
             /\ \E i \in 1..Len(log) :
                  log[i] = Event("define", Enters[1].h, <<call.maxorder, call.nbody>>)
             /\ \E i \in 1..Len(log) :
                  /\ log[i] = Event("get_matrix_elements", Enters[1].h, <<>>)
                  /\ \E j \in (i + 1)..Len(log) :
                       /\ IsPinv(log[j])
                       /\ \E l \in (j + 1)..Len(log) : log[l] = Enters[2]
             /\ Ab # None /\ psi # None
        /\ Returned =>
             /\ Len(Enters) = 2
             /\ Driven(Enters[2].h) = ExpectedSecond(Enters[2].h)
        /\ (Raised /\ (Ab = None \/ psi = None)) => Len(Enters) <= 1

\* run(maxorder=2, nbody=[0, 3]) returned after driving two handles.
C9_Witness ==
    /\ Returned
    /\ call.maxorder = 2
    /\ call.nbody # None
    /\ Len(Enters) = 2
    /\ Len(Driven(Enters[2].h)) = 5

(***************************************************************************)
(* C10: a pair whose first decoded atom is in 0..N-1 and one of whose      *)
(* other decoded atoms is N or more is not skipped: its write raises       *)
(* IndexError, the pass appends nothing, run raises that error instead of  *)
(* returning tensors, and the handle is released all the same.             *)
(***************************************************************************)
C10_AbsentTrailingAtomRaises ==
    (/\ call # None
     /\ call.op = "run"
     /\ \E j \in Kept(N, reply) : TrailingAtomAbsent(N, reply[j]))
    => \/ /\ pc = "run_exit"
          /\ exc = Error("IndexError", "index is out of bounds for axis")
          /\ Len(fcs) < loopOrder
       \/ /\ pc = "idle"
          /\ result = Error("IndexError", "index is out of bounds for axis")
          /\ OpenHandles = {}

\* run(maxorder=2) raised IndexError in the pass for order 2.
C10_Witness ==
    /\ Raised
    /\ call.op = "run"
    /\ result.type = "IndexError"
    /\ Len(fcs) = 1
    /\ \E j \in Kept(N, reply) : TrailingAtomAbsent(N, reply[j])
    /\ OpenHandles = {}

=============================================================================
